---------------------------- MODULE Spec2Model ----------------------------
(***************************************************************************)
(* A model of requestq: the RequestQueue scheduler and the Request state   *)
(* machine (the exported classes RequestQueue and Request).                *)
(*                                                                         *)
(* JavaScript runs one task at a time, so every action below is one task   *)
(* of the event loop together with the promise reactions (microtasks) it   *)
(* triggers: a call of request(), the firing of the update timer, or one   *)
(* event of one XMLHttpRequest / Image.  The transport (XMLHttpRequest) is *)
(* the environment: it decides the outcome of every attempt in flight.     *)
(***************************************************************************)
EXTENDS Integers, Sequences, FiniteSets, TLC

(***************************************************************************)
(* Bounds of the model.                                                    *)
(***************************************************************************)
MaxReq == 3          \* number of calls of request() in one behaviour

(***************************************************************************)
(* enum RequestPriority { LOW, MEDIUM, HIGH, HIGHEST }                     *)
(***************************************************************************)
LOW == 0
MEDIUM == 1
HIGH == 2
HIGHEST == 3

\* JavaScript's null / undefined, for an option the caller left out and for
\* "no request" results.
null == -1

\* enum RequestStatus; "NONE" marks a slot whose request() call has not
\* happened yet.
StatusValues == {"PENDING", "SENDING", "FAILED", "DONE"}

Ids == 1..MaxReq

VARIABLES
  concurrency,    \* RequestQueue.concurrency
  retries,        \* RequestQueue.retries
  queue,          \* RequestQueue.queue: sequence of request ids
  updateTimeout,  \* RequestQueue.updateTimeout is non-null
  timers,         \* number of setTimeout callbacks of enqueue not yet fired
  req,            \* the Request objects, by id (id = order of submission)
  nreq,           \* number of requests submitted so far
  log             \* history: ids in the order of their first dispatch, each
                  \* with the number of requests submitted at that moment

vars == <<concurrency, retries, queue, updateTimeout, timers, req, nreq, log>>

\* A slot before its request() call.
NoRequest ==
  [method |-> "GET", priorityOption |-> null, priority |-> null,
   maxRetriesOption |-> null, maxRetries |-> null, responseType |-> "none",
   sendAttempts |-> 0, status |-> "NONE", promise |-> "pending",
   xhr |-> "none", decoding |-> 0, atSubmit |-> <<>>,
   dispatches |-> 0, aborts |-> 0, failures |-> 0, settles |-> 0]

(***************************************************************************)
(* new Request(method, url, options).  `||` takes the default for every    *)
(* falsy value, so priority 0 (LOW) becomes MEDIUM and maxRetries 0        *)
(* becomes null.                                                           *)
(*   xhr      : state of this.xhr, the latest attempt: "none" (no attempt, *)
(*              or one that was aborted or has been delivered), "flight"   *)
(*              (sent, no answer yet), "decoding" (answered with a success *)
(*              status, the Image of parseResponse not loaded yet)         *)
(*   decoding : number of earlier attempts whose Image is still loading    *)
(*   priorityOption, maxRetriesOption, atSubmit, dispatches, aborts,       *)
(*   failures, settles : history (what the caller passed; for a HIGHEST    *)
(*              request, the status of the earlier requests when it was    *)
(*              submitted; and the counts of dispatches, preemption        *)
(*              aborts, failed attempts and onDone/onFail calls)           *)
(***************************************************************************)
Request(method, priorityOption, maxRetriesOption, responseType) ==
  [method |-> method,
   priorityOption |-> priorityOption,
   priority |-> IF priorityOption = null \/ priorityOption = 0
                THEN MEDIUM ELSE priorityOption,
   maxRetriesOption |-> maxRetriesOption,
   maxRetries |-> IF maxRetriesOption = null \/ maxRetriesOption = 0
                  THEN null ELSE maxRetriesOption,
   responseType |-> responseType,
   sendAttempts |-> 0, status |-> "PENDING", promise |-> "pending",
   xhr |-> "none", decoding |-> 0,
   atSubmit |-> IF priorityOption = HIGHEST
                THEN [r \in 1..nreq |-> req[r].status] ELSE <<>>,
   dispatches |-> 0, aborts |-> 0, failures |-> 0, settles |-> 0]

(***************************************************************************)
(* The scheduler's methods are operators on a store                        *)
(*   s = [queue, req, updateTimeout, timers, log, threw]                   *)
(* where threw records that the call ended by throwing.                    *)
(***************************************************************************)
Store ==
  [queue |-> queue, req |-> req, updateTimeout |-> updateTimeout,
   timers |-> timers, log |-> log, threw |-> FALSE]

Min(S) == CHOOSE x \in S : \A y \in S : x <= y

InQueue(q, r) == \E i \in 1..Len(q) : q[i] = r

\* this.queue.splice(index, 0, request), index counted from 0
SpliceIn(q, index, r) ==
  SubSeq(q, 1, index) \o <<r>> \o SubSeq(q, index + 1, Len(q))

\* this.queue.splice(index, 1), index counted from 0
SpliceOut(q, index) ==
  SubSeq(q, 1, index) \o SubSeq(q, index + 2, Len(q))

\* this.queue.indexOf(req), counted from 0; -1 when absent
IndexOf(q, r) ==
  IF InQueue(q, r) THEN Min({i \in 1..Len(q) : q[i] = r}) - 1 ELSE -1


\* getNextPendingRequest without the bound of the scan by concurrency.
getNextPendingAnywhere(s) ==
  LET found == {index \in 0..(Len(s.queue) - 1) :
                  s.req[s.queue[index + 1]].status = "PENDING"}
  IN  IF found = {} THEN null ELSE s.queue[Min(found) + 1]

(***************************************************************************)
(* RequestQueue.getNextPendingRequest: the first PENDING request among the *)
(* first `concurrency` entries of the queue, or null.                      *)
(***************************************************************************)
getNextPendingRequest(s) ==
  LET found == {index \in 0..(Len(s.queue) - 1) :
                  /\ index < concurrency
                  /\ s.req[s.queue[index + 1]].status = "PENDING"}
  IN  IF found = {} THEN null ELSE s.queue[Min(found) + 1]

\* getNextOverflowingGet without the test of the method.
getNextOverflowingAny(s) ==
  LET found == {index \in concurrency..(Len(s.queue) - 1) :
                  /\ s.req[s.queue[index + 1]].status = "SENDING"
                  /\ s.req[s.queue[index + 1]].priority # HIGHEST}
  IN  IF found = {} THEN null ELSE s.queue[Min(found) + 1]

\* getNextOverflowingGet with a scan that starts at index 0.
getNextOverflowingFromStart(s) ==
  LET found == {index \in 0..(Len(s.queue) - 1) :
                  /\ s.req[s.queue[index + 1]].status = "SENDING"
                  /\ s.req[s.queue[index + 1]].priority # HIGHEST
                  /\ s.req[s.queue[index + 1]].method = "GET"}
  IN  IF found = {} THEN null ELSE s.queue[Min(found) + 1]

(***************************************************************************)
(* RequestQueue.getNextOverflowingGet: the first request at index          *)
(* >= concurrency that is SENDING, not HIGHEST and a GET, or null.         *)
(***************************************************************************)
getNextOverflowingGet(s) ==
  LET found == {index \in concurrency..(Len(s.queue) - 1) :
                  /\ s.req[s.queue[index + 1]].status = "SENDING"
                  /\ s.req[s.queue[index + 1]].priority # HIGHEST
                  /\ s.req[s.queue[index + 1]].method = "GET"}
  IN  IF found = {} THEN null ELSE s.queue[Min(found) + 1]

(***************************************************************************)
(* Request.send: opens a new XMLHttpRequest (this.xhr), throws for a       *)
(* responseType it does not know, otherwise sends and counts the attempt.  *)
(* An earlier attempt whose Image is still loading keeps loading.          *)
(***************************************************************************)
send(s, r) ==
  LET old == s.req[r]
      opened == [old EXCEPT !.xhr = "none",
                            !.decoding = IF old.xhr = "decoding"
                                         THEN @ + 1 ELSE @]
  IN  IF old.responseType = "bogus"
      THEN [s EXCEPT !.req[r] = opened, !.threw = TRUE]
      ELSE [s EXCEPT !.req[r] = [opened EXCEPT !.xhr = "flight",
                                               !.sendAttempts = @ + 1]]

(***************************************************************************)
(* Request.abort: this.xhr.abort().  An attempt in flight ends without a   *)
(* completion (readyState 4 with status 0 is ignored by send's handler,    *)
(* and abort fires no error event); an XMLHttpRequest that is unsent or    *)
(* done is not affected, nor is an Image that is loading.                  *)
(***************************************************************************)
abort(s, r) ==
  [s EXCEPT !.req[r].xhr = IF @ = "flight" THEN "none" ELSE @]

(***************************************************************************)
(* RequestQueue.sendRequest, its synchronous part: mark SENDING and call   *)
(* send().  The reactions it registers are thenReaction and catchReaction. *)
(***************************************************************************)
sendRequest(s, r) ==
  LET first == s.req[r].dispatches = 0
      s1 == [s EXCEPT !.req[r].status = "SENDING",
                      !.req[r].dispatches = @ + 1,
                      !.log = IF first
                              THEN Append(@, [id |-> r, submitted |-> nreq])
                              ELSE @]
  IN  send(s1, r)

\* update's first loop: while (req = this.getNextPendingRequest())
RECURSIVE sendLoop(_)
sendLoop(s) ==
  LET r == getNextPendingRequest(s)
  IN  IF r = null THEN s
      ELSE LET s1 == sendRequest(s, r)
           IN  IF s1.threw THEN s1 ELSE sendLoop(s1)

\* update's second loop: while (req = this.getNextOverflowingGet())
RECURSIVE abortLoop(_)
abortLoop(s) ==
  LET r == getNextOverflowingGet(s)
  IN  IF r = null THEN s
      ELSE abortLoop([abort(s, r) EXCEPT !.req[r].status = "PENDING",
                                         !.req[r].aborts = @ + 1])

\* update with its two loops in the other order.
updateAbortFirst(s) ==
  LET s1 == sendLoop(abortLoop(s))
  IN  IF s1.threw THEN s1
      ELSE [s1 EXCEPT !.updateTimeout = FALSE]

(***************************************************************************)
(* RequestQueue.update.  When send() throws, the rest of update, with the  *)
(* reset of updateTimeout, is skipped.                                     *)
(***************************************************************************)
update(s) ==
  LET s1 == sendLoop(s)
  IN  IF s1.threw THEN s1
      ELSE [abortLoop(s1) EXCEPT !.updateTimeout = FALSE]

\* enqueue with `<=` in the comparison of the priorities: the new request
\* goes in front of the entries of its own priority.
enqueueBeforeEqual(s, r) ==
  LET lower == {index \in 0..(Len(s.queue) - 1) :
                  s.req[s.queue[index + 1]].priority <= s.req[r].priority}
      index == IF lower = {} THEN Len(s.queue) ELSE Min(lower)
      s1 == [s EXCEPT !.queue = SpliceIn(@, index, r)]
  IN  IF ~s1.updateTimeout
      THEN [s1 EXCEPT !.updateTimeout = TRUE, !.timers = @ + 1]
      ELSE s1

\* enqueue that runs the update pass itself instead of setting the timer.
enqueueAndUpdate(s, r) ==
  LET lower == {index \in 0..(Len(s.queue) - 1) :
                  s.req[s.queue[index + 1]].priority < s.req[r].priority}
      index == IF lower = {} THEN Len(s.queue) ELSE Min(lower)
  IN  update([s EXCEPT !.queue = SpliceIn(@, index, r)])

(***************************************************************************)
(* RequestQueue.enqueue: insert before the first entry of lower priority,  *)
(* and set the update timer unless updateTimeout is set.                   *)
(***************************************************************************)
enqueue(s, r) ==
  LET lower == {index \in 0..(Len(s.queue) - 1) :
                  s.req[s.queue[index + 1]].priority < s.req[r].priority}
      index == IF lower = {} THEN Len(s.queue) ELSE Min(lower)
      s1 == [s EXCEPT !.queue = SpliceIn(@, index, r)]
  IN  IF ~s1.updateTimeout
      THEN [s1 EXCEPT !.updateTimeout = TRUE, !.timers = @ + 1]
      ELSE s1

\* dequeue without the test of the index: splice(-1, 1) removes the last
\* entry of the queue.
dequeueUnchecked(s, r) ==
  LET index == IndexOf(s.queue, r)
  IN  update([s EXCEPT !.queue = IF index = -1
                                 THEN SubSeq(@, 1, Len(@) - 1)
                                 ELSE SpliceOut(@, index)])

(***************************************************************************)
(* RequestQueue.dequeue: throws when the request is not in the queue,      *)
(* otherwise removes it and runs update.                                   *)
(***************************************************************************)
dequeue(s, r) ==
  LET index == IndexOf(s.queue, r)
  IN  IF index = -1 THEN [s EXCEPT !.threw = TRUE]
      ELSE update([s EXCEPT !.queue = SpliceOut(@, index)])

\* req.onDone / req.onFail: resolve / reject of req.promise; a settled
\* promise keeps its state.
onDone(s, r) ==
  [s EXCEPT !.req[r].promise = IF @ = "pending" THEN "resolved" ELSE @,
            !.req[r].settles = @ + 1]

onFail(s, r) ==
  [s EXCEPT !.req[r].promise = IF @ = "pending" THEN "rejected" ELSE @,
            !.req[r].settles = @ + 1]

\* catchReaction with a retry that takes the request out of the queue and
\* enqueues it again.
catchReactionRequeue(s, r) ==
  LET retryCount == IF s.req[r].maxRetries # null
                    THEN s.req[r].maxRetries ELSE retries
      index == IndexOf(s.queue, r)
      out == IF index = -1 THEN s
             ELSE [s EXCEPT !.queue = SpliceOut(@, index)]
  IN  IF s.req[r].sendAttempts < retryCount
      THEN update([enqueue(out, r) EXCEPT !.req[r].status = "PENDING"])
      ELSE LET s1 == dequeue([s EXCEPT !.req[r].status = "FAILED"], r)
           IN  IF s1.threw THEN s1 ELSE onFail(s1, r)

(***************************************************************************)
(* The rejection reaction of sendRequest, .catch((e) => ...): runs when    *)
(* the attempt's promise rejects and when the fulfilment reaction throws.  *)
(* What it throws itself is an unhandled rejection.                        *)
(***************************************************************************)
catchReaction(s, r) ==
  LET retryCount == IF s.req[r].maxRetries # null
                    THEN s.req[r].maxRetries ELSE retries
  IN  IF s.req[r].sendAttempts < retryCount
      THEN update([s EXCEPT !.req[r].status = "PENDING"])
      ELSE LET s1 == dequeue([s EXCEPT !.req[r].status = "FAILED"], r)
           IN  IF s1.threw THEN s1 ELSE onFail(s1, r)

(***************************************************************************)
(* The fulfilment reaction of sendRequest, .then((response) => ...).  An   *)
(* error thrown by dequeue (or by the update pass it runs) rejects the     *)
(* derived promise, which runs the rejection reaction.                     *)
(***************************************************************************)
thenReaction(s, r) ==
  LET s1 == dequeue([s EXCEPT !.req[r].status = "DONE"], r)
  IN  IF s1.threw THEN catchReaction([s1 EXCEPT !.threw = FALSE], r)
      ELSE onDone(s1, r)

\* The end of a task: the store becomes the state; an error that nobody
\* caught is reported by the runtime and changes nothing.
Commit(s) ==
  /\ queue' = s.queue
  /\ req' = s.req
  /\ updateTimeout' = s.updateTimeout
  /\ timers' = s.timers
  /\ log' = s.log

(***************************************************************************)
(* Initial state: new RequestQueue({retries, concurrency}), the options    *)
(* drawn from the given sets.                                              *)
(***************************************************************************)
RequestQueue(retriesChoices, concurrencyChoices) ==
  /\ concurrency \in concurrencyChoices
  /\ retries \in retriesChoices
  /\ queue = <<>>
  /\ updateTimeout = FALSE
  /\ timers = 0
  /\ req = [r \in Ids |-> NoRequest]
  /\ nreq = 0
  /\ log = <<>>

(***************************************************************************)
(* RequestQueue.request(method, url, options) (and get, post, ...).        *)
(***************************************************************************)
request(method, priorityOption, maxRetriesOption, responseType) ==
  /\ nreq + 1 \in DOMAIN req
  /\ nreq' = nreq + 1
  /\ LET r == nreq + 1
         made == [Store EXCEPT !.req[r] =
                    Request(method, priorityOption, maxRetriesOption,
                            responseType)]
     IN  Commit(enqueue(made, r))
  /\ UNCHANGED <<concurrency, retries>>

\* A caller submits a request whose method and options come from the
\* given sets.
Submit(methods, priorityOptions, maxRetriesOptions, responseTypes) ==
  \E method \in methods, priorityOption \in priorityOptions,
     maxRetriesOption \in maxRetriesOptions, responseType \in responseTypes :
    request(method, priorityOption, maxRetriesOption, responseType)

\* The callback of enqueue's window.setTimeout: this.update().
TimerFires ==
  /\ timers > 0
  /\ Commit(update([Store EXCEPT !.timers = @ - 1]))
  /\ UNCHANGED <<concurrency, retries, nreq>>

(***************************************************************************)
(* The transport answers the attempt in flight of request r.               *)
(***************************************************************************)
\* readyState 4 with status 200, 201 or 204 and a payload parseResponse
\* accepts: the attempt's promise resolves, at once or, for responseType
\* 'image', when the Image has loaded.
RespondSuccess(r) ==
  /\ req[r].xhr = "flight"
  /\ IF req[r].responseType = "image"
     THEN Commit([Store EXCEPT !.req[r].xhr = "decoding"])
     ELSE Commit(thenReaction([Store EXCEPT !.req[r].xhr = "none"], r))
  /\ UNCHANGED <<concurrency, retries, nreq>>

\* readyState 4 with a success status and a payload that does not decode:
\* JSON.parse throws inside parseResponse, whose promise rejects; nothing
\* handles that rejection, and the attempt's promise never settles.  The
\* same holds for an Image that never loads.  (Where the XMLHttpRequest
\* decodes 'json' itself, xhr.response is null for such a payload and
\* parseResponse resolves with it: that outcome is RespondSuccess.)
RespondUndecodable(r) ==
  /\ req[r].xhr = "flight"
  /\ req[r].responseType \in {"json", "image"}
  /\ Commit([Store EXCEPT !.req[r].xhr = "none"])
  /\ UNCHANGED <<concurrency, retries, nreq>>

\* response.onload of the latest attempt's Image.
ImageLoaded(r) ==
  /\ req[r].xhr = "decoding"
  /\ Commit(thenReaction([Store EXCEPT !.req[r].xhr = "none"], r))
  /\ UNCHANGED <<concurrency, retries, nreq>>

\* response.onload of the Image of an earlier attempt.
EarlierImageLoaded(r) ==
  /\ req[r].decoding > 0
  /\ Commit(thenReaction([Store EXCEPT !.req[r].decoding = @ - 1], r))
  /\ UNCHANGED <<concurrency, retries, nreq>>

\* readyState 4 with a status that is neither 0 nor 200, 201, 204.
RespondFailure(r) ==
  /\ req[r].xhr = "flight"
  /\ Commit(catchReaction([Store EXCEPT !.req[r].xhr = "none",
                                        !.req[r].failures = @ + 1], r))
  /\ UNCHANGED <<concurrency, retries, nreq>>

\* xhr.onerror: no status code (the readyState 4 event with status 0 that
\* comes with it is ignored).
NetworkError(r) ==
  /\ req[r].xhr = "flight"
  /\ Commit(catchReaction([Store EXCEPT !.req[r].xhr = "none",
                                        !.req[r].failures = @ + 1], r))
  /\ UNCHANGED <<concurrency, retries, nreq>>

(***************************************************************************)
(* Spec: scheduling.  Every method class, every priority, a responseType   *)
(* that send() accepts and one it rejects; answers decode at once.  A      *)
(* failed attempt is RespondFailure here: NetworkError runs the same       *)
(* reaction on the same state, and is an action of SpecDecode.             *)
(***************************************************************************)
Methods == {"GET", "POST"}
PriorityOptions == {LOW, MEDIUM, HIGH, HIGHEST}
ResponseTypes == {"none", "bogus"}

Init == RequestQueue({2}, {1, 2})

Next ==
  \/ Submit(Methods, PriorityOptions, {null}, ResponseTypes)
  \/ TimerFires
  \/ \E r \in Ids : RespondSuccess(r)
  \/ \E r \in Ids : RespondFailure(r)

Spec == Init /\ [][Next]_vars

(***************************************************************************)
(* SpecPlain: as Spec, every responseType one that send() accepts.         *)
(***************************************************************************)
NextPlain ==
  \/ Submit(Methods, PriorityOptions, {null}, {"none"})
  \/ TimerFires
  \/ \E r \in Ids : RespondSuccess(r)
  \/ \E r \in Ids : RespondFailure(r)

SpecPlain == Init /\ [][NextPlain]_vars

(***************************************************************************)
(* SpecDecode: decoding of the answers.  GET requests of every             *)
(* responseType class, answers that decode at once, later (Image), or      *)
(* never; the default retries (3) and none.                                *)
(***************************************************************************)
InitDecode == RequestQueue({0, 3}, {1})

NextDecode ==
  \/ Submit({"GET"}, {MEDIUM, HIGHEST}, {null},
            {"none", "json", "image", "bogus"})
  \/ TimerFires
  \/ \E r \in Ids : RespondSuccess(r)
  \/ \E r \in Ids : RespondUndecodable(r)
  \/ \E r \in Ids : ImageLoaded(r)
  \/ \E r \in Ids : EarlierImageLoaded(r)
  \/ \E r \in Ids : RespondFailure(r)
  \/ \E r \in Ids : NetworkError(r)

SpecDecode == InitDecode /\ [][NextDecode]_vars

(***************************************************************************)
(* SpecBudget: the retry budget.  GET requests with and without a          *)
(* per-request maxRetries (0 included), schedulers with retries 0 and 2;   *)
(* an attempt fails with a status code or with no status at all.           *)
(***************************************************************************)
MaxRetriesOptions == {null, 0, 1, 2}

InitBudget == RequestQueue({0, 2}, {1})

NextBudget ==
  \/ Submit({"GET"}, {MEDIUM, HIGHEST}, MaxRetriesOptions, {"none"})
  \/ TimerFires
  \/ \E r \in Ids : RespondSuccess(r)
  \/ \E r \in Ids : NetworkError(r)
  \/ \E r \in Ids : RespondFailure(r)

SpecBudget == InitBudget /\ [][NextBudget]_vars

(***************************************************************************)
(* SpecMethods: the methods.  GET, another idempotent method and a         *)
(* non-idempotent one, at the default priority and at HIGHEST.             *)
(***************************************************************************)
NextMethods ==
  \/ Submit({"GET", "HEAD", "POST"}, {MEDIUM, HIGHEST}, {null}, {"none"})
  \/ TimerFires
  \/ \E r \in Ids : RespondSuccess(r)
  \/ \E r \in Ids : RespondFailure(r)

SpecMethods == Init /\ [][NextMethods]_vars

(***************************************************************************)
(* SpecScenario: the 'Priority test'.  A scheduler with retries 3 and      *)
(* concurrency 3; one task submits five LOW and five HIGH GET requests,    *)
(* alternating, LOW first; after the update timer has fired, a HIGHEST     *)
(* request is submitted.  The transport completes the attempts in flight   *)
(* in any order.                                                           *)
(***************************************************************************)
Pairs == 5

ScenarioIds == 1..(2 * Pairs + 1)

InitScenario ==
  /\ concurrency = 3
  /\ retries = 3
  /\ queue = <<>>
  /\ updateTimeout = FALSE
  /\ timers = 0
  /\ req = [r \in ScenarioIds |-> NoRequest]
  /\ nreq = 0
  /\ log = <<>>

\* One turn of the loop's body is two calls of get(); the loop is a single
\* task, so no timer fires before its end.
ScenarioBatch ==
  /\ nreq < 2 * Pairs
  /\ request("GET", IF nreq % 2 = 0 THEN LOW ELSE HIGH, null, "json")

\* The callback of the test's window.setTimeout(..., 10), which runs after
\* the scheduler's timer of 1 ms.
ScenarioHighest ==
  /\ nreq = 2 * Pairs
  /\ timers = 0
  /\ request("GET", HIGHEST, null, "json")

ScenarioTimer ==
  /\ nreq >= 2 * Pairs
  /\ TimerFires

NextScenario ==
  \/ ScenarioBatch
  \/ ScenarioHighest
  \/ ScenarioTimer
  \/ \E r \in ScenarioIds : RespondSuccess(r)

SpecScenario == InitScenario /\ [][NextScenario]_vars

(***************************************************************************)
(* Vocabulary of the properties.                                           *)
(***************************************************************************)
Submitted == 1..nreq

\* GET, HEAD and OPTIONS are the idempotent methods.
Idempotent == {"GET", "HEAD", "OPTIONS"}

\* 0-based index of r in the queue, -1 when absent.
Position(r) == IndexOf(queue, r)

Sending == {r \in Submitted : InQueue(queue, r) /\ req[r].status = "SENDING"}

\* The retry budget as the caller configured it: the per-request maxRetries
\* when one was passed, else the scheduler's retries.
Budget(r) ==
  IF req[r].maxRetriesOption # null THEN req[r].maxRetriesOption ELSE retries

\* a was submitted with a strictly higher priority than b, or with the same
\* priority and earlier.
Precedes(a, b) ==
  \/ req[a].priorityOption > req[b].priorityOption
  \/ req[a].priorityOption = req[b].priorityOption /\ a < b

\* Position of r's first dispatch in the order of first dispatches; 0 when
\* r was never dispatched.
FirstDispatch(r) ==
  IF \E i \in 1..Len(log) : log[i].id = r
  THEN CHOOSE i \in 1..Len(log) : log[i].id = r
  ELSE 0

\* Every completed attempt of r ended in a failure (none succeeded, none
\* was aborted) and none is outstanding.
AllAttemptsFailed(r) ==
  /\ req[r].aborts = 0
  /\ req[r].xhr = "none"
  /\ req[r].decoding = 0
  /\ req[r].failures = req[r].dispatches
  /\ req[r].failures = req[r].sendAttempts

\* The update pass that follows the last enqueue has run to its end.
Updated == timers = 0 /\ ~updateTimeout

(***************************************************************************)
(* C1: in every reachable state the number of queued requests whose status *)
(* is SENDING is at most `concurrency`.                                    *)
(***************************************************************************)
C1_ConcurrencyCeiling == Cardinality(Sending) <= concurrency

(***************************************************************************)
(* C2: of two requests that were in the queue together before either was   *)
(* dispatched, the one submitted with the higher priority (or, at equal    *)
(* priority, earlier) has its first dispatch first.                        *)
(***************************************************************************)
C2_DispatchOrder ==
  \A i \in 1..Len(log) :
    \A a \in 1..log[i].submitted :
      (a # log[i].id /\ Precedes(a, log[i].id)) =>
        (FirstDispatch(a) # 0 /\ FirstDispatch(a) < i)

(***************************************************************************)
(* C3: a request's future is settled at most once, in the step in which    *)
(* the request becomes DONE (resolved) or FAILED (rejected); the future of *)
(* a request that is PENDING or SENDING is unsettled.                      *)
(***************************************************************************)
C3_SettledOnceAtTerminal ==
  [][\A r \in Submitted :
       /\ req'[r].settles <= 1
       /\ (req[r].promise # "pending") => (req'[r].promise = req[r].promise)
       /\ (req[r].promise = "pending" /\ req'[r].promise = "resolved")
            => (req[r].status # "DONE" /\ req'[r].status = "DONE")
       /\ (req[r].promise = "pending" /\ req'[r].promise = "rejected")
            => (req[r].status # "FAILED" /\ req'[r].status = "FAILED")
       /\ (req'[r].status \in {"PENDING", "SENDING"})
            => (req'[r].promise = "pending")]_vars

(***************************************************************************)
(* C4: once the timers have fired and the transport has answered every     *)
(* attempt, every submitted request is DONE or FAILED, out of the queue,   *)
(* and its future is settled.                                              *)
(***************************************************************************)
Quiescent ==
  /\ timers = 0
  /\ \A r \in Submitted : req[r].xhr = "none" /\ req[r].decoding = 0

C4_EveryRequestSettles ==
  Quiescent =>
    \A r \in Submitted :
      /\ req[r].status \in {"DONE", "FAILED"}
      /\ ~InQueue(queue, r)
      /\ req[r].promise # "pending"

(***************************************************************************)
(* C5: with concurrency 1, a HIGHEST request submitted while a HIGH        *)
(* request is SENDING has its future settled before the HIGH request's     *)
(* future settles.                                                         *)
(***************************************************************************)
C5_HighestSettlesFirst ==
  concurrency = 1 =>
    \A x \in Submitted, h \in Submitted :
      ( /\ h < x
        /\ req[x].priorityOption = HIGHEST
        /\ req[h].priorityOption = HIGH
        /\ req[x].atSubmit[h] = "SENDING"
        /\ req[h].promise # "pending" )
      => req[x].promise # "pending"

(***************************************************************************)
(* C6: a SENDING request with a non-idempotent method is never aborted by  *)
(* the update pass, and goes back to PENDING in the queue only through a   *)
(* failed attempt of its own.                                              *)
(***************************************************************************)
C6_NonIdempotentNeverAborted ==
  [][\A r \in Submitted :
       (req[r].method \notin Idempotent /\ req[r].status = "SENDING") =>
         /\ req'[r].aborts = 0
         /\ (req[r].xhr = "flight" /\ req'[r].xhr # "flight")
              => (req'[r].status # "SENDING" \/ ~InQueue(queue', r))
         /\ (req'[r].status = "PENDING" /\ InQueue(queue', r))
              => req'[r].failures = req[r].failures + 1]_vars

\* A non-idempotent request is SENDING, with its attempt in flight, beyond
\* the first `concurrency` queue entries after an update pass has run.
C6_Witness ==
  \E r \in Submitted :
    /\ req[r].method \notin Idempotent
    /\ req[r].status = "SENDING"
    /\ req[r].xhr = "flight"
    /\ Position(r) >= concurrency
    /\ Updated

(***************************************************************************)
(* C7: a request with retry budget r >= 1 that is never preempted and      *)
(* whose attempts all fail is dispatched exactly r times: its future is    *)
(* rejected at the r-th failure, not before, with attempt counter r.       *)
(***************************************************************************)
C7_RetryExhaustion ==
  \A r \in Submitted :
    (Budget(r) >= 1 /\ AllAttemptsFailed(r)) =>
      /\ req[r].dispatches <= Budget(r)
      /\ (req[r].promise = "rejected") <=> (req[r].failures = Budget(r))
      /\ (req[r].promise = "rejected") =>
           (req[r].sendAttempts = Budget(r) /\ req[r].status = "FAILED")

(***************************************************************************)
(* C8: a request with a non-idempotent method is dispatched at most once.  *)
(***************************************************************************)
C8_OnlyGetRetried ==
  \A r \in Submitted :
    req[r].method \notin Idempotent =>
      (req[r].dispatches <= 1 /\ req[r].sendAttempts <= 1)

(***************************************************************************)
(* C9: a request is rejected only after as many of its attempts failed as  *)
(* its retry budget says, however often it was preempted.                  *)
(***************************************************************************)
C9_PreemptionKeepsBudget ==
  \A r \in Submitted :
    req[r].promise = "rejected" => req[r].failures >= Budget(r)

(***************************************************************************)
(* C10: as long as no HIGHEST request has been submitted, no request is    *)
(* aborted and returned to PENDING by an update pass.                      *)
(***************************************************************************)
C10_OnlyHighestAborts ==
  (\A x \in Submitted : req[x].priorityOption # HIGHEST) =>
    (\A r \in Submitted : req[r].aborts = 0)

(***************************************************************************)
(* C11: when an attempt of a request fails, the request is retried or      *)
(* fails for good by comparing its attempt counter with its per-request    *)
(* maxRetries if the caller passed one (any integer >= 0), and with the    *)
(* scheduler's retries only if the caller passed none.                     *)
(***************************************************************************)
C11_BudgetIsOverride ==
  [][\A r \in Submitted :
       (req'[r].failures = req[r].failures + 1) =>
         ((req'[r].status = "FAILED") <=> (req[r].sendAttempts >= Budget(r)))
    ]_vars

(***************************************************************************)
(* C12: in the step in which an attempt of a json request is answered with *)
(* a success status and a payload that does not decode, the request        *)
(* becomes FAILED, leaves the queue and its future is rejected, whatever   *)
(* is left of its retry budget.                                            *)
(***************************************************************************)
C12_UndecodableFailsAtOnce ==
  [][\A r \in Submitted :
       (req[r].responseType = "json" /\ RespondUndecodable(r)) =>
         /\ req'[r].status = "FAILED"
         /\ ~InQueue(queue', r)
         /\ req'[r].promise = "rejected"]_vars

(***************************************************************************)
(* C13: in the step in which an attempt of a request fails without a       *)
(* status code, the request stays in the queue to be sent again, its       *)
(* future pending, if its attempt counter is below its retry budget, and   *)
(* otherwise becomes FAILED, leaves the queue and its future is rejected   *)
(* (with retries = 0, at the first such failure).                          *)
(***************************************************************************)
C13_NetworkFailureRetryable ==
  [][\A r \in Submitted :
       NetworkError(r) =>
         IF req[r].sendAttempts < Budget(r)
         THEN /\ req'[r].status \in {"PENDING", "SENDING"}
              /\ InQueue(queue', r)
              /\ req'[r].promise = "pending"
         ELSE /\ req'[r].status = "FAILED"
              /\ ~InQueue(queue', r)
              /\ req'[r].promise = "rejected"]_vars

(***************************************************************************)
(* C14: a request is in the queue at most once, and only while it is       *)
(* PENDING or SENDING; the step that makes it DONE or FAILED removes it;   *)
(* and a completion that arrives for a request no longer in the queue      *)
(* (whose dequeue raises "not in queue") leaves the queue as it is and     *)
(* calls neither onDone nor onFail.                                        *)
(***************************************************************************)
Completion(r) ==
  \/ RespondSuccess(r) /\ req[r].responseType # "image"
  \/ ImageLoaded(r)
  \/ EarlierImageLoaded(r)
  \/ RespondFailure(r)

C14_QueueMembership ==
  [][/\ \A i, j \in 1..Len(queue') : queue'[i] = queue'[j] => i = j
     /\ \A r \in Submitted :
          /\ InQueue(queue', r) => req'[r].status \in {"PENDING", "SENDING"}
          /\ (req[r].status \in {"PENDING", "SENDING"}
                /\ req'[r].status \in {"DONE", "FAILED"})
               => ~InQueue(queue', r)
          /\ (~InQueue(queue, r) /\ Completion(r))
               => (queue' = queue /\ req'[r].settles = req[r].settles)
    ]_vars

\* A request whose future was resolved has later been answered again: the
\* dequeue of that completion raised, and so did the one of FAILED.
C14_Witness ==
  \E r \in Submitted :
    /\ req[r].promise = "resolved"
    /\ req[r].status = "FAILED"
    /\ ~InQueue(queue, r)
    /\ queue # <<>>

(***************************************************************************)
(* C15: the queue is sorted by descending priority and, among requests of  *)
(* equal priority, by order of submission: for indices i < j the request   *)
(* at i has a priority at least that of the request at j, and if equal it  *)
(* was submitted earlier.                                                  *)
(***************************************************************************)
C15_QueueSorted ==
  \A i, j \in 1..Len(queue) :
    i < j =>
      /\ req[queue[i]].priorityOption >= req[queue[j]].priorityOption
      /\ (req[queue[i]].priorityOption = req[queue[j]].priorityOption)
           => queue[i] < queue[j]

(***************************************************************************)
(* C16: in the 'Priority test' scenario, whatever the order in which the   *)
(* transport completes the attempts, the future of a LOW request is        *)
(* settled only when the futures of all five HIGH requests are settled.    *)
(***************************************************************************)
SettledOf(priorityOption) ==
  {r \in Submitted : /\ req[r].priorityOption = priorityOption
                     /\ req[r].promise # "pending"}

C16_LowAfterAllHigh ==
  (nreq = 2 * Pairs + 1 /\ SettledOf(LOW) # {}) =>
    Cardinality(SettledOf(HIGH)) = Pairs

(***************************************************************************)
(* C17: the future of a HIGHEST request is settled before the future of    *)
(* any HIGH, MEDIUM or LOW request that was PENDING when the HIGHEST       *)
(* request was submitted.                                                  *)
(***************************************************************************)
C17_HighestBeforePending ==
  \A x \in Submitted, h \in Submitted :
    ( /\ h < x
      /\ req[x].priorityOption = HIGHEST
      /\ req[h].priorityOption # HIGHEST
      /\ req[x].atSubmit[h] = "PENDING"
      /\ req[h].promise # "pending" )
    => req[x].promise # "pending"

(***************************************************************************)
(* C18: in every reachable state the attempt counter of a request is at    *)
(* most its retry budget.                                                  *)
(***************************************************************************)
C18_AttemptsWithinBudget ==
  \A r \in Submitted : req[r].sendAttempts <= Budget(r)

(***************************************************************************)
(* C19: a step that runs an update pass (the update timer, or the          *)
(* completion of an attempt) ends with no request at a queue index         *)
(* >= concurrency that is SENDING, not HIGHEST, and of an idempotent       *)
(* method.                                                                 *)
(***************************************************************************)
Overflowing ==
  {r \in Submitted : /\ Position(r) >= concurrency
                     /\ req[r].status = "SENDING"
                     /\ req[r].priority # HIGHEST
                     /\ req[r].method \in Idempotent}

C19_NoOverflowAfterUpdate ==
  [][(nreq' = nreq) => (Overflowing' = {})]_vars

(***************************************************************************)
(* C20: a step that returns a queued request to PENDING, by a retry after  *)
(* a failed attempt or by a preemption abort, keeps the request in the     *)
(* queue with its priority, and keeps the order of the queue: the queue    *)
(* after the step is the queue before it without the requests that the     *)
(* step completed.                                                         *)
(***************************************************************************)
Retried(r) ==
  req'[r].failures = req[r].failures + 1 /\ req'[r].status # "FAILED"

Aborted(r) == req'[r].aborts = req[r].aborts + 1

C20_ReturnKeepsPosition ==
  [][\A r \in Submitted :
       (InQueue(queue, r) /\ (Retried(r) \/ Aborted(r))) =>
         LET Stays(o) == InQueue(queue', o)
         IN  /\ InQueue(queue', r)
             /\ req'[r].priority = req[r].priority
             /\ queue' = SelectSeq(queue, Stays)
             /\ Retried(r) => queue' = queue]_vars

\* A request that has been returned to PENDING both ways is in the queue
\* between two others.
C20_Witness ==
  \E r \in Submitted :
    /\ req[r].aborts > 0
    /\ req[r].failures > 0
    /\ Position(r) = 1
    /\ Len(queue) = 3

(***************************************************************************)
(* C21: a PENDING request within the first `concurrency` queue positions   *)
(* is never left without an update pass to come: either the update timer   *)
(* is set to fire, or an attempt is outstanding whose completion runs the  *)
(* pass (dequeue, or the retry).                                           *)
(***************************************************************************)
PendingInWindow ==
  {r \in Submitted : /\ Position(r) >= 0
                     /\ Position(r) < concurrency
                     /\ req[r].status = "PENDING"}

Outstanding == {r \in Submitted : req[r].xhr # "none" \/ req[r].decoding > 0}

C21_UpdateFollows ==
  PendingInWindow # {} => (timers > 0 \/ Outstanding # {})

(***************************************************************************)
(* C22: update() is idempotent.  From any reachable state, a pass that     *)
(* has run to its end followed at once by a second pass: the second        *)
(* dispatches nothing, aborts nothing, and leaves the queue and every      *)
(* request (status and attempt counter included) as the first left them.   *)
(***************************************************************************)
C22_UpdateIdempotent ==
  LET first == update(Store)
      second == update(first)
  IN  ~first.threw =>
        /\ ~second.threw
        /\ second.queue = first.queue
        /\ second.req = first.req
        /\ second.log = first.log

\* A state from which the first pass both dispatches and aborts.
C22_Witness ==
  LET first == update(Store)
  IN  /\ ~first.threw
      /\ \E r \in Submitted : first.req[r].dispatches > req[r].dispatches
      /\ \E r \in Submitted : first.req[r].aborts > req[r].aborts

(***************************************************************************)
(* C23: a step dispatches a request only if the request was PENDING (or    *)
(* is returned to PENDING by the retry of that step) and its index in the  *)
(* queue the pass works on is below `concurrency`; a request at an index   *)
(* >= concurrency is not dispatched.                                       *)
(***************************************************************************)
Dispatched(r) == req'[r].dispatches > req[r].dispatches

C23_DispatchOnlyInWindow ==
  [][\A r \in Submitted :
       Dispatched(r) =>
         /\ req'[r].dispatches = req[r].dispatches + 1
         /\ req[r].status = "PENDING" \/ Retried(r)
         /\ IndexOf(queue', r) >= 0
         /\ IndexOf(queue', r) < concurrency]_vars

\* After an update pass, a request that was never dispatched waits PENDING
\* beyond the window while a request submitted after it has been sent.
C23_Witness ==
  \E r \in Submitted, later \in Submitted :
    /\ Updated
    /\ r < later
    /\ req[r].status = "PENDING"
    /\ req[r].dispatches = 0
    /\ Position(r) >= concurrency
    /\ req[later].dispatches > 0

(***************************************************************************)
(* C24: within an update pass the dispatches come before the aborts.  A    *)
(* request aborted in a step is not dispatched in that step and is         *)
(* PENDING, with no attempt in flight, when the step ends; and the pass of *)
(* the update timer in which a dispatch raises an error (which ends the    *)
(* pass) has aborted nothing.                                              *)
(***************************************************************************)
DispatchRaised(r) ==
  /\ req[r].responseType = "bogus"
  /\ req[r].status = "PENDING"
  /\ req'[r].status = "SENDING"

C24_DispatchesBeforeAborts ==
  [][/\ \A r \in Submitted :
          Aborted(r) =>
            /\ req'[r].status = "PENDING"
            /\ req'[r].xhr = "none"
            /\ ~Dispatched(r)
     /\ (timers' = timers - 1 /\ \E r \in Submitted : DispatchRaised(r))
          => \A r \in Submitted : ~Aborted(r)]_vars

\* After the pass of the update timer a request that pass has aborted is
\* PENDING beyond the window, behind a request the pass has dispatched.
C24_Witness ==
  \E r \in Submitted, x \in Submitted :
    /\ Updated
    /\ req[r].aborts > 0
    /\ req[r].status = "PENDING"
    /\ Position(r) >= concurrency
    /\ req[x].status = "SENDING"
    /\ req[x].xhr = "flight"
    /\ Position(x) >= 0
    /\ Position(x) < Position(r)
    /\ r < x

(***************************************************************************)
(* C25: request() inserts the new request and returns without dispatching  *)
(* it.  When the call returns, the request is in the queue, PENDING, with  *)
(* attempt counter 0 and its future pending, and the call has dispatched   *)
(* and aborted nothing: every other request and the order of the others    *)
(* in the queue are as before.                                             *)
(***************************************************************************)
C25_SubmitDoesNotDispatch ==
  [][(nreq' = nreq + 1) =>
       LET new == nreq'
           Old(o) == o # new
       IN  /\ InQueue(queue', new)
           /\ req'[new].status = "PENDING"
           /\ req'[new].sendAttempts = 0
           /\ req'[new].dispatches = 0
           /\ req'[new].xhr = "none"
           /\ req'[new].promise = "pending"
           /\ SelectSeq(queue', Old) = queue
           /\ \A o \in Submitted : req'[o] = req[o]
           /\ log' = log]_vars

\* A request just submitted is at the head of the queue, inside the window,
\* not dispatched, with the update timer set; the request behind it is
\* still SENDING.
C25_Witness ==
  \E r \in Submitted, o \in Submitted :
    /\ r = nreq
    /\ Position(r) = 0
    /\ req[r].status = "PENDING"
    /\ req[r].dispatches = 0
    /\ timers > 0
    /\ Position(o) = 1
    /\ req[o].status = "SENDING"
    /\ req[o].method = "GET"

(***************************************************************************)
(* C26: every submitted request whose status is PENDING or SENDING is in   *)
(* the queue.                                                              *)
(***************************************************************************)
C26_NonTerminalInQueue ==
  \A r \in Submitted :
    req[r].status \in {"PENDING", "SENDING"} => InQueue(queue, r)

(***************************************************************************)
(* C27: the attempt counter of a request equals the number of its          *)
(* dispatches (PENDING -> SENDING), and a step that dispatches nothing     *)
(* leaves it unchanged.                                                    *)
(***************************************************************************)
C27_CounterCountsDispatches ==
  [][\A r \in Submitted :
       /\ req'[r].sendAttempts = req'[r].dispatches
       /\ ~Dispatched(r) => req'[r].sendAttempts = req[r].sendAttempts]_vars

(***************************************************************************)
(* C28: the queue index of a HIGHEST request never increases while it is   *)
(* in the queue, and a HIGHEST request that is SENDING lies within the     *)
(* first `concurrency` queue positions.                                    *)
(***************************************************************************)
C28_HighestKeepsWindow ==
  [][\A r \in Submitted :
       (req[r].priority = HIGHEST /\ InQueue(queue', r)) =>
         /\ InQueue(queue, r) => IndexOf(queue', r) <= IndexOf(queue, r)
         /\ req'[r].status = "SENDING" => IndexOf(queue', r) < concurrency
    ]_vars

\* A HIGHEST request is SENDING in the last position of the window, and a
\* HIGHEST request submitted after it waits behind it.
C28_Witness ==
  \E r \in Submitted, x \in Submitted :
    /\ r < x
    /\ req[r].priority = HIGHEST
    /\ req[x].priority = HIGHEST
    /\ req[r].status = "SENDING"
    /\ req[r].xhr = "flight"
    /\ Position(r) = concurrency - 1
    /\ Position(x) = concurrency
    /\ Updated

(***************************************************************************)
(* C29: a step that runs an update pass (the update timer, or the          *)
(* completion of an attempt) ends with no PENDING request within the       *)
(* first `concurrency` queue positions.                                    *)
(***************************************************************************)
C29_WindowAllSending ==
  [][(nreq' = nreq) => (PendingInWindow' = {})]_vars

(***************************************************************************)
(* C30: every request whose status is SENDING has exactly one attempt      *)
(* outstanding: its latest XMLHttpRequest is in flight (or its Image is    *)
(* loading), and no earlier attempt is still to be delivered.              *)
(***************************************************************************)
C30_SendingHasAttempt ==
  \A r \in Submitted :
    req[r].status = "SENDING" =>
      (req[r].xhr \in {"flight", "decoding"} /\ req[r].decoding = 0)

(***************************************************************************)
(* C31: DONE and FAILED are absorbing.  A request whose status is DONE or  *)
(* FAILED keeps that status in every later step; and the step in which a   *)
(* request is made DONE (its fulfilment reaction runs) or FAILED (its      *)
(* rejection reaction finds the budget used up) ends with that status,     *)
(* whatever the update pass of its dequeue does to the other requests.     *)
(***************************************************************************)
Fulfilled(r) ==
  \/ RespondSuccess(r) /\ req[r].responseType # "image"
  \/ ImageLoaded(r)
  \/ EarlierImageLoaded(r)

Exhausted(r) ==
  /\ RespondFailure(r) \/ NetworkError(r)
  /\ req[r].sendAttempts >=
       (IF req[r].maxRetries # null THEN req[r].maxRetries ELSE retries)

C31_TerminalAbsorbing ==
  [][\A r \in Submitted :
       /\ req[r].status \in {"DONE", "FAILED"}
            => req'[r].status = req[r].status
       /\ Fulfilled(r) => req'[r].status = "DONE"
       /\ Exhausted(r) => req'[r].status = "FAILED"]_vars

(***************************************************************************)
(* C32: the scheduler handles a completion (runs the fulfilment or the     *)
(* rejection reaction of sendRequest) only for a request that is SENDING   *)
(* and in the queue, and only for the latest attempt of that request: the  *)
(* completion of an attempt aborted by preemption is never handled,        *)
(* neither while the request is PENDING nor after its next dispatch.       *)
(***************************************************************************)
Handled(r) == Fulfilled(r) \/ RespondFailure(r) \/ NetworkError(r)

C32_OnlyLatestAttemptHandled ==
  [][\A r \in Submitted :
       Handled(r) =>
         /\ req[r].status = "SENDING"
         /\ InQueue(queue, r)
         /\ ~EarlierImageLoaded(r)]_vars

=============================================================================
